---- MODULE Spec2Model ----
(***************************************************************************)
(* Model of the dashboard linter's configuration resolver                  *)
(* (lint/configuration.go: ConfigurationEntry.IsMatch,                     *)
(* ConfigurationFile.Apply) and of its result accumulator (ResultSet:      *)
(* Configure, AddResult, MaximumSeverity, ByRule).                         *)
(*                                                                         *)
(* Go strings that the code only compares are TLA+ strings.  Strings the   *)
(* code builds or parses are sequences: a message is the sequence of its   *)
(* pieces (concatenation is \o), a targetIdx is the sequence of its        *)
(* characters (strconv.Atoi reads it character by character).  A Go        *)
(* pointer is a record with a nil flag.                                    *)
(***************************************************************************)
EXTENDS Integers, Sequences, FiniteSets, TLC

VARIABLES rs, cf, res, out, ce, ret, input, rsA, rsB, pc

vars == <<rs, cf, res, out, ce, ret, input, rsA, rsB, pc>>

----------------------------------------------------------------------------
(* Bounds of the model *)

\* most ConfigurationEntry values in one configuration file (both maps together)
MaxEntries == 2
\* most ConfigurationEntry values in a configuration file given to Configure
MaxRsEntries == 1
\* most characters of a targetIdx string given to IsMatch
MaxIdxLen == 2
\* most results held by a ResultSet
MaxResults == 2
\* Configure is not called on a message that already carries this many suffixes
MaxSuffixes == 2

----------------------------------------------------------------------------
(* Severity *)

Success == 0
Exclude == 1
Warning == 2
Error == 3

Severities == {Success, Exclude, Warning, Error}

----------------------------------------------------------------------------
(* Dashboards, panels, targets, rules, result contexts *)

Rules == {"rule1", "rule2"}
DashboardTitles == {"dash1", "dash2"}
PanelTitles == {"panel1", "panel2"}
TargetIdxs == {0, 1}

NilDashboard == [nil |-> TRUE, Title |-> ""]
NilPanel == [nil |-> TRUE, Title |-> ""]
NilTarget == [nil |-> TRUE, Idx |-> 0]

DashboardPtr(title) == [nil |-> FALSE, Title |-> title]
PanelPtr(title) == [nil |-> FALSE, Title |-> title]
TargetPtr(idx) == [nil |-> FALSE, Idx |-> idx]

DashboardPtrs == {NilDashboard} \cup {DashboardPtr(t) : t \in DashboardTitles}
PanelPtrs == {NilPanel} \cup {PanelPtr(t) : t \in PanelTitles}
TargetPtrs == {NilTarget} \cup {TargetPtr(i) : i \in TargetIdxs}

\* the message of a rule's Result: "OK" on success, the rule's text on a violation
OkMessage == <<"OK">>
RuleMessage == <<"foo">>
ExcludedSuffix == " (Excluded)"

Result(severity) ==
    [Severity |-> severity,
     Message |-> IF severity = Success THEN OkMessage ELSE RuleMessage]

ResultContext(rule, dashboard, panel, target, severity) ==
    [Result |-> Result(severity), Rule |-> rule,
     Dashboard |-> dashboard, Panel |-> panel, Target |-> target]

\* the contexts rule evaluation hands to the resolver: Success or Error
NewContexts ==
    {ResultContext(rule, d, p, t, s) :
        rule \in Rules, d \in DashboardPtrs, p \in PanelPtrs, t \in TargetPtrs,
        s \in {Success, Error}}

\* dashboard-scoped contexts, as a ResultSet collects them
DashboardContexts ==
    {ResultContext(rule, d, NilPanel, NilTarget, s) :
        rule \in Rules, d \in DashboardPtrs, s \in {Success, Error}}

----------------------------------------------------------------------------
(* strconv.Atoi on a string given as its characters *)

IdxChars == {"0", "1", "-", "x"}
Digits == {"0", "1"}

DigitVal(ch) == IF ch = "0" THEN 0 ELSE 1

RECURSIVE ParseDigits(_, _)
ParseDigits(s, acc) ==
    IF s = <<>> THEN [err |-> FALSE, val |-> acc]
    ELSE IF Head(s) \notin Digits THEN [err |-> TRUE, val |-> 0]
    ELSE ParseDigits(Tail(s), acc * 10 + DigitVal(Head(s)))

Atoi(s) ==
    IF s = <<>> THEN [err |-> TRUE, val |-> 0]
    ELSE LET body == IF Head(s) \in {"-", "+"} THEN Tail(s) ELSE s
         IN  IF body = <<>> THEN [err |-> TRUE, val |-> 0]
             ELSE LET p == ParseDigits(body, 0)
                  IN  IF p.err THEN p
                      ELSE [err |-> FALSE,
                            val |-> IF Head(s) = "-" THEN 0 - p.val ELSE p.val]

----------------------------------------------------------------------------
(* Configuration file *)

ConfigurationEntry(dashboard, panel, targetIdx) ==
    [Dashboard |-> dashboard, Panel |-> panel, TargetIdx |-> targetIdx]

\* a value of the map[string]*ConfigurationRuleEntries, as a lookup returns it:
\* key absent, key present with a nil pointer, key present with entries
Absent == [ok |-> FALSE, nil |-> TRUE, Entries |-> <<>>]
NilRuleEntries == [ok |-> TRUE, nil |-> TRUE, Entries |-> <<>>]
ConfigurationRuleEntries(entries) == [ok |-> TRUE, nil |-> FALSE, Entries |-> entries]

ConfigurationFile(exclusions, warnings) ==
    [Exclusions |-> exclusions, Warnings |-> warnings]

EmptyMap == [name \in Rules |-> Absent]

NewConfigurationFile == ConfigurationFile(EmptyMap, EmptyMap)

IsMatchNoPanel(e, r) ==
    LET ret1 == IF ~r.Dashboard.nil /\ e.Dashboard # r.Dashboard.Title
                THEN FALSE ELSE TRUE
        ret3 == IF ~r.Target.nil /\ e.TargetIdx # <<>>
                THEN LET a == Atoi(e.TargetIdx)
                     IN  IF ~a.err /\ a.val # r.Target.Idx THEN FALSE ELSE ret1
                ELSE ret1
    IN  ret3

IsMatch(e, r) ==
    LET ret1 == IF ~r.Dashboard.nil /\ e.Dashboard # r.Dashboard.Title
                THEN FALSE ELSE TRUE
        ret2 == IF ~r.Panel.nil /\ e.Panel # r.Panel.Title
                THEN FALSE ELSE ret1
        ret3 == IF ~r.Target.nil /\ e.TargetIdx # <<>>
                THEN LET a == Atoi(e.TargetIdx)
                     IN  IF ~a.err /\ a.val # r.Target.Idx THEN FALSE ELSE ret2
                ELSE ret2
    IN  ret3

MatchedNoNil(v, r) ==
    IF ~v.nil
    THEN (\E i \in 1..Len(v.Entries) : IsMatch(v.Entries[i], r))
         \/ Len(v.Entries) = 0
    ELSE FALSE

\* the matched flag of one pass of Apply, from the looked-up map value
Matched(v, r) ==
    IF ~v.nil
    THEN (\E i \in 1..Len(v.Entries) : IsMatch(v.Entries[i], r))
         \/ Len(v.Entries) = 0
    ELSE v.ok

ExclusionPassReplace(c, r) ==
    IF Matched(c.Exclusions[r.Rule], r)
    THEN [r EXCEPT !.Result.Severity = Exclude,
                   !.Result.Message = <<ExcludedSuffix>>]
    ELSE r

ExclusionPass(c, r) ==
    IF Matched(c.Exclusions[r.Rule], r)
    THEN [r EXCEPT !.Result.Severity = Exclude,
                   !.Result.Message = @ \o <<ExcludedSuffix>>]
    ELSE r

WarningPass(c, r) ==
    IF Matched(c.Warnings[r.Rule], r)
    THEN [r EXCEPT !.Result.Severity = Warning]
    ELSE r

ApplyWarningFirst(c, r) == ExclusionPass(c, WarningPass(c, r))

Apply(c, r) == WarningPass(c, ExclusionPass(c, r))

----------------------------------------------------------------------------
(* ResultSet *)

NilConfig == [nil |-> TRUE, file |-> NewConfigurationFile]
ConfigPtr(c) == [nil |-> FALSE, file |-> c]

ResultSet(results, config) == [results |-> results, config |-> config]

EmptyResultSet == ResultSet(<<>>, NilConfig)

ConfigureAttachOnly(s, c) == ResultSet(s.results, ConfigPtr(c))

Configure(s, c) ==
    ResultSet([i \in 1..Len(s.results) |-> Apply(c, s.results[i])], ConfigPtr(c))

AddResult(s, r) ==
    LET r1 == IF ~s.config.nil THEN Apply(s.config.file, r) ELSE r
    IN  ResultSet(Append(s.results, r1), s.config)

RECURSIVE MaxFold(_, _)
MaxFold(results, retVal) ==
    IF results = <<>> THEN retVal
    ELSE MaxFold(Tail(results),
                 IF Head(results).Result.Severity > retVal
                 THEN Head(results).Result.Severity ELSE retVal)

RECURSIVE MinFold(_, _)
MinFold(results, retVal) ==
    IF results = <<>> THEN retVal
    ELSE MinFold(Tail(results),
                 IF Head(results).Result.Severity < retVal
                 THEN Head(results).Result.Severity ELSE retVal)

MaximumSeverityReversed(s) == MinFold(s.results, Success)

MaximumSeverity(s) == MaxFold(s.results, Success)

\* Go's < on the dashboard titles of the model
TitleRank(title) ==
    CASE title = "" -> 0
      [] title = "dash1" -> 1
      [] title = "dash2" -> 2

Swap(data, i, j) == [data EXCEPT ![i] = data[j], ![j] = data[i]]

\* the inner loop of the insertion sort: for j := i; j > a && less(j, j-1); j--
\* less reads Dashboard.Title of both elements and panics on a nil Dashboard
RECURSIVE InsertInner(_, _)
InsertInner(data, j) ==
    IF j > 1
    THEN IF data[j].Dashboard.nil \/ data[j - 1].Dashboard.nil
         THEN [panic |-> TRUE, data |-> data]
         ELSE IF TitleRank(data[j].Dashboard.Title)
                   < TitleRank(data[j - 1].Dashboard.Title)
              THEN InsertInner(Swap(data, j, j - 1), j - 1)
              ELSE [panic |-> FALSE, data |-> data]
    ELSE [panic |-> FALSE, data |-> data]

RECURSIVE InsertionSort(_, _)
InsertionSort(data, i) ==
    IF i > Len(data) THEN [panic |-> FALSE, data |-> data]
    ELSE LET step == InsertInner(data, i)
         IN  IF step.panic THEN step ELSE InsertionSort(step.data, i + 1)

\* sort.SliceStable on a slice shorter than its block size is one insertion sort
SliceStable(data) == InsertionSort(data, 2)

ByRule(s) ==
    LET names == {s.results[i].Rule : i \in 1..Len(s.results)}
        group(name) == SelectSeq(s.results, LAMBDA r : r.Rule = name)
        sorted == [name \in names |-> SliceStable(group(name))]
    IN  [panic |-> \E name \in names : sorted[name].panic,
         groups |-> [name \in names |-> sorted[name].data]]

----------------------------------------------------------------------------
(* The configuration files and entries the model loads *)

SeqsUpTo(S, n) == UNION {[1..k -> S] : k \in 0..n}

\* rules that the loaded configuration files name
ConfiguredRules == {"rule1"}

MapOf(v) == [name \in Rules |-> IF name \in ConfiguredRules THEN v ELSE Absent]

MapValues(entries, n) ==
    {Absent, NilRuleEntries}
        \cup {ConfigurationRuleEntries(es) : es \in SeqsUpTo(entries, n)}

\* what Load can decode: each map names the rule or not, with no value, or with
\* a list of entries
ConfigFiles(entries, n) ==
    {ConfigurationFile(MapOf(x), MapOf(y)) :
        <<x, y>> \in {p \in MapValues(entries, n) \X MapValues(entries, n) :
                        Len(p[1].Entries) + Len(p[2].Entries) <= n}}

ApplyEntries ==
    {ConfigurationEntry(d, p, t) :
        d \in {"", "dash1"}, p \in {"", "panel1"}, t \in {<<>>, <<"0">>, <<"x">>}}

MatchEntries ==
    {ConfigurationEntry(d, p, t) :
        d \in {""} \cup DashboardTitles, p \in {""} \cup PanelTitles,
        t \in SeqsUpTo(IdxChars, MaxIdxLen)}

RsEntries == {ConfigurationEntry("dash1", "", <<>>)}

RsConfigFiles == ConfigFiles(RsEntries, MaxRsEntries)

----------------------------------------------------------------------------
(* Specification of a ResultSet under AddResult and Configure *)

Idle == "idle"

SuffixCount(r) == Len(r.Result.Message) - 1

Init ==
    /\ rs = EmptyResultSet
    /\ pc = "run"
    /\ cf = Idle /\ res = Idle /\ out = Idle /\ ce = Idle /\ ret = Idle
    /\ input = Idle /\ rsA = Idle /\ rsB = Idle

DoAddResult ==
    /\ pc = "run"
    /\ Len(rs.results) < MaxResults
    /\ \E r \in DashboardContexts : rs' = AddResult(rs, r)
    /\ UNCHANGED <<cf, res, out, ce, ret, input, rsA, rsB, pc>>

DoConfigure ==
    /\ pc = "run"
    /\ \A i \in 1..Len(rs.results) : SuffixCount(rs.results[i]) < MaxSuffixes
    /\ \E c \in RsConfigFiles : rs' = Configure(rs, c)
    /\ UNCHANGED <<cf, res, out, ce, ret, input, rsA, rsB, pc>>

Next == DoAddResult \/ DoConfigure

Spec == Init /\ [][Next]_vars

----------------------------------------------------------------------------
(* Specification of Apply on one context *)

ApplyInit ==
    /\ cf \in ConfigFiles(ApplyEntries, MaxEntries)
    /\ res \in NewContexts
    /\ out = res
    /\ pc = "apply"
    /\ rs = Idle /\ ce = Idle /\ ret = Idle
    /\ input = Idle /\ rsA = Idle /\ rsB = Idle

DoApply ==
    /\ pc = "apply"
    /\ out' = Apply(cf, res)
    /\ pc' = "applied"
    /\ UNCHANGED <<rs, cf, res, ce, ret, input, rsA, rsB>>

ApplyNext == DoApply

ApplySpec == ApplyInit /\ [][ApplyNext]_vars

----------------------------------------------------------------------------
(* Specification of IsMatch on one entry and one context *)

MatchInit ==
    /\ ce \in MatchEntries
    /\ res \in NewContexts
    /\ ret = FALSE
    /\ pc = "match"
    /\ rs = Idle /\ cf = Idle /\ out = Idle
    /\ input = Idle /\ rsA = Idle /\ rsB = Idle

DoIsMatch ==
    /\ pc = "match"
    /\ ret' = IsMatch(ce, res)
    /\ pc' = "matched"
    /\ UNCHANGED <<rs, cf, res, out, ce, input, rsA, rsB>>

MatchNext == DoIsMatch

MatchSpec == MatchInit /\ [][MatchNext]_vars

----------------------------------------------------------------------------
(* Specification of the two build orders of a ResultSet *)

OrderInit ==
    /\ cf \in RsConfigFiles
    /\ input \in SeqsUpTo(DashboardContexts, MaxResults)
    /\ rsA = EmptyResultSet
    /\ rsB = EmptyResultSet
    /\ pc = "addA"
    /\ rs = Idle /\ res = Idle /\ out = Idle /\ ce = Idle /\ ret = Idle

\* order A: AddResult of every result, then Configure
AddThen ==
    /\ pc = "addA"
    /\ Len(rsA.results) < Len(input)
    /\ rsA' = AddResult(rsA, input[Len(rsA.results) + 1])
    /\ UNCHANGED <<rs, cf, res, out, ce, ret, input, rsB, pc>>

ThenConfigure ==
    /\ pc = "addA"
    /\ Len(rsA.results) = Len(input)
    /\ rsA' = Configure(rsA, cf)
    /\ pc' = "configureB"
    /\ UNCHANGED <<rs, cf, res, out, ce, ret, input, rsB>>

\* order B: Configure, then AddResult of every result
ConfigureThen ==
    /\ pc = "configureB"
    /\ rsB' = Configure(rsB, cf)
    /\ pc' = IF Len(input) = 0 THEN "built" ELSE "addB"
    /\ UNCHANGED <<rs, cf, res, out, ce, ret, input, rsA>>

ThenAdd ==
    /\ pc = "addB"
    /\ Len(rsB.results) < Len(input)
    /\ rsB' = AddResult(rsB, input[Len(rsB.results) + 1])
    /\ pc' = IF Len(rsB.results) + 1 = Len(input) THEN "built" ELSE "addB"
    /\ UNCHANGED <<rs, cf, res, out, ce, ret, input, rsA>>

OrderNext == AddThen \/ ThenConfigure \/ ConfigureThen \/ ThenAdd

OrderSpec == OrderInit /\ [][OrderNext]_vars

----------------------------------------------------------------------------
(* Properties *)

\* the severities and messages of a ResultSet, in order
Outcomes(s) == [i \in 1..Len(s.results) |-> s.results[i].Result]

\* a map value covers a context: the rule is named with no value, with an empty
\* entry list, or with an entry that matches the context
Covers(v, r) ==
    v.ok /\ (Len(v.Entries) = 0 \/ \E i \in 1..Len(v.Entries) : IsMatch(v.Entries[i], r))

\* the rule is named with no value at all or with an empty entry list
NamedWithoutEntries(v) == v.ok /\ Len(v.Entries) = 0

\* the decimal string of a target index of the model
IdxString(i) == IF i = 0 THEN <<"0">> ELSE <<"1">>

\* C1: for the same configuration and the same results, AddResult of every
\* result followed by Configure ends with the same sequence of severities and
\* messages as Configure followed by AddResult of every result.
C1_OrderIndependent ==
    pc = "built" => Outcomes(rsA) = Outcomes(rsB)

C1_Witness ==
    /\ pc = "built"
    /\ Len(input) >= 2
    /\ \E i \in 1..Len(input) : rsA.results[i].Result # input[i].Result
    /\ \E i \in 1..Len(input) : rsA.results[i].Result = input[i].Result

\* C2: a context that both the exclusions map and the warnings map cover (by
\* an empty entry list or by a matching entry) is returned by Apply with
\* severity Warning, not Exclude.
C2_WarningWins ==
    (/\ pc = "applied"
     /\ Covers(cf.Exclusions[res.Rule], res)
     /\ Covers(cf.Warnings[res.Rule], res))
        => out.Result.Severity = Warning

C2_Witness ==
    /\ pc = "applied"
    /\ Len(cf.Exclusions[res.Rule].Entries) = 1
    /\ Len(cf.Warnings[res.Rule].Entries) = 1
    /\ IsMatch(cf.Exclusions[res.Rule].Entries[1], res)
    /\ IsMatch(cf.Warnings[res.Rule].Entries[1], res)
    /\ res.Result.Severity = Error
    /\ out.Result.Severity = Warning

\* C3 as stated: a rule named in the exclusions (resp. warnings) map with an
\* empty entry list or with no value has every one of its contexts turned into
\* Exclude (resp. Warning) by Apply, whatever dashboard, panel and target the
\* context carries; a context whose rule is in neither map keeps its severity.
C3_Original ==
    pc = "applied" =>
        /\ NamedWithoutEntries(cf.Exclusions[res.Rule])
              => out.Result.Severity = Exclude
        /\ NamedWithoutEntries(cf.Warnings[res.Rule])
              => out.Result.Severity = Warning
        /\ (~cf.Exclusions[res.Rule].ok /\ ~cf.Warnings[res.Rule].ok)
              => out.Result.Severity = res.Result.Severity

\* C3 amended: a rule named in the exclusions map with an empty entry list or
\* with no value has every one of its contexts turned into Exclude by Apply,
\* unless the warnings map also covers the context, in which case the context
\* is turned into Warning; a rule named in the warnings map with an empty entry
\* list or with no value has every one of its contexts turned into Warning; a
\* context whose rule is in neither map keeps its severity.
C3_EmptyListCoversAll ==
    pc = "applied" =>
        /\ NamedWithoutEntries(cf.Exclusions[res.Rule])
              => out.Result.Severity =
                    IF Covers(cf.Warnings[res.Rule], res) THEN Warning ELSE Exclude
        /\ NamedWithoutEntries(cf.Warnings[res.Rule])
              => out.Result.Severity = Warning
        /\ (~cf.Exclusions[res.Rule].ok /\ ~cf.Warnings[res.Rule].ok)
              => out.Result.Severity = res.Result.Severity

C3_Witness ==
    /\ pc = "applied"
    /\ cf.Exclusions[res.Rule] = NilRuleEntries
    /\ ~cf.Warnings[res.Rule].ok
    /\ ~res.Dashboard.nil /\ ~res.Panel.nil /\ ~res.Target.nil
    /\ res.Result.Severity = Error
    /\ out.Result.Severity = Exclude

\* an entry agrees with a context on every field the entry sets, the context
\* carrying each of them
AgreesOnSetFields(e, r) ==
    /\ e.Dashboard # "" => (~r.Dashboard.nil /\ r.Dashboard.Title = e.Dashboard)
    /\ e.Panel # "" => (~r.Panel.nil /\ r.Panel.Title = e.Panel)
    /\ e.TargetIdx # <<>> => (~r.Target.nil /\ e.TargetIdx = IdxString(r.Target.Idx))

\* an entry agrees with a context on every field the entry sets and the context
\* carries; a target index is compared when the entry's index is an integer
AgreesWhereCarried(e, r) ==
    /\ (e.Dashboard # "" /\ ~r.Dashboard.nil) => r.Dashboard.Title = e.Dashboard
    /\ (e.Panel # "" /\ ~r.Panel.nil) => r.Panel.Title = e.Panel
    /\ (e.TargetIdx # <<>> /\ ~Atoi(e.TargetIdx).err /\ ~r.Target.nil)
          => Atoi(e.TargetIdx).val = r.Target.Idx

\* the exclusion pass rewrote the context: only it changes the message
ExclusionRewrote == out.Result.Message # res.Result.Message
\* the warning pass rewrote the context: rule evaluation never returns Warning
WarningRewrote == out.Result.Severity = Warning

\* C4 as stated: with a non-empty entry list, a pass of Apply rewrites the
\* context only if some entry agrees with it on every field the entry sets: the
\* context carries that field and its value is equal.
C4_Original ==
    pc = "applied" =>
        /\ (Len(cf.Exclusions[res.Rule].Entries) > 0 /\ ExclusionRewrote)
              => \E i \in 1..Len(cf.Exclusions[res.Rule].Entries) :
                    AgreesOnSetFields(cf.Exclusions[res.Rule].Entries[i], res)
        /\ (Len(cf.Warnings[res.Rule].Entries) > 0 /\ WarningRewrote)
              => \E i \in 1..Len(cf.Warnings[res.Rule].Entries) :
                    AgreesOnSetFields(cf.Warnings[res.Rule].Entries[i], res)

\* C4 amended: with a non-empty entry list, a pass of Apply rewrites the context
\* only if some entry agrees with it on every field that the entry sets and the
\* context carries (dashboard title, panel title, and the target index when the
\* entry's index is an integer); a field the context does not carry is not
\* compared.  A context that differs from every entry on such a field keeps its
\* severity and message in that pass.
C4_RewriteOnlyOnAgreement ==
    pc = "applied" =>
        /\ (Len(cf.Exclusions[res.Rule].Entries) > 0 /\ ExclusionRewrote)
              => \E i \in 1..Len(cf.Exclusions[res.Rule].Entries) :
                    AgreesWhereCarried(cf.Exclusions[res.Rule].Entries[i], res)
        /\ (Len(cf.Warnings[res.Rule].Entries) > 0 /\ WarningRewrote)
              => \E i \in 1..Len(cf.Warnings[res.Rule].Entries) :
                    AgreesWhereCarried(cf.Warnings[res.Rule].Entries[i], res)

C4_Witness ==
    /\ pc = "applied"
    /\ Len(cf.Exclusions[res.Rule].Entries) = 2
    /\ cf.Exclusions[res.Rule].Entries[1]
          = ConfigurationEntry("dash1", "panel1", <<"0">>)
    /\ res.Dashboard = DashboardPtr("dash1")
    /\ res.Panel = PanelPtr("panel1")
    /\ res.Target = TargetPtr(0)
    /\ ExclusionRewrote

\* C5: an entry constrains a context only through the fields it sets: an entry
\* with no field set matches every context, an entry that sets only the
\* dashboard title matches every context of that dashboard whatever its panel
\* and target, an entry whose target index is unset matches every target index,
\* and an entry whose target index is 0 matches only target index 0.
C5_OnlySetFieldsConstrain ==
    pc = "matched" =>
        /\ (ce.Dashboard = "" /\ ce.Panel = "" /\ ce.TargetIdx = <<>>) => ret
        /\ (/\ ce.Dashboard # "" /\ ce.Panel = "" /\ ce.TargetIdx = <<>>
            /\ ~res.Dashboard.nil /\ res.Dashboard.Title = ce.Dashboard) => ret
        /\ (/\ ce.TargetIdx = <<>>
            /\ ~res.Dashboard.nil /\ res.Dashboard.Title = ce.Dashboard
            /\ ~res.Panel.nil /\ res.Panel.Title = ce.Panel) => ret
        /\ (ce.TargetIdx = <<"0">> /\ ~res.Target.nil /\ ret) => res.Target.Idx = 0

C7_MaximumSeverity ==
    pc = "run" =>
        LET m == MaximumSeverity(rs)
            present == {rs.results[i].Result.Severity : i \in 1..Len(rs.results)}
        IN  /\ present = {} => m = Success
            /\ present # {} => (m \in present /\ \A s \in present : s <= m)
            /\ m >= Error <=> Error \in present

C7_Witness ==
    /\ pc = "run"
    /\ ~rs.config.nil
    /\ Len(rs.results) = 2
    /\ rs.results[1].Result.Severity = Warning
    /\ rs.results[2].Result.Severity = Exclude
    /\ MaximumSeverity(rs) = Warning

\* C8: ByRule returns one group per rule name that has a stored context; every
\* stored context appears exactly once, in the group of its rule; inside each
\* group the contexts are ordered by non-decreasing dashboard title and contexts
\* with equal title keep their relative insertion order.
C8_ByRuleGroups ==
    pc = "run" =>
        LET b == ByRule(rs)
            names == {rs.results[i].Rule : i \in 1..Len(rs.results)}
        IN  /\ ~b.panic
            /\ DOMAIN b.groups = names
            /\ \A name \in names :
                  LET g == b.groups[name]
                  IN  /\ \A i \in 1..Len(g) : g[i].Rule = name
                      /\ \A i, j \in 1..Len(g) :
                            i < j => TitleRank(g[i].Dashboard.Title)
                                        <= TitleRank(g[j].Dashboard.Title)
                      /\ \A d \in DashboardPtrs :
                            SelectSeq(g, LAMBDA r : r.Dashboard = d)
                              = SelectSeq(rs.results,
                                          LAMBDA r : r.Rule = name /\ r.Dashboard = d)

\* C9: over any sequence of AddResult and Configure calls every stored context
\* is rewritten by the resolver at most once: its message is the rule's
\* original message followed by at most one " (Excluded)" suffix.
C9_RewrittenAtMostOnce ==
    pc = "run" =>
        \A i \in 1..Len(rs.results) :
            LET m == rs.results[i].Result.Message
            IN  \/ m \in {OkMessage, RuleMessage}
                \/ m \in {OkMessage \o <<ExcludedSuffix>>,
                          RuleMessage \o <<ExcludedSuffix>>}

\* C10: a configuration override only downgrades: the severity Apply returns is
\* not higher than the severity before Apply, and a context with severity
\* Success is still Success after Apply.
C10_OnlyDowngrades ==
    pc = "applied" =>
        /\ out.Result.Severity <= res.Result.Severity
        /\ res.Result.Severity = Success => out.Result.Severity = Success

====
